---- MODULE Spec2Model ----
(***************************************************************************)
(* A model of the ingestion pipeline of animal-shelter-insights:           *)
(*   petfinder_api.py    PetfinderAPI       (token manager, paged fetcher) *)
(*   database.py         DatabaseManager    (normalizer, upsert store)     *)
(*   data_collector.py   ShelterDataCollector (orchestrator)               *)
(***************************************************************************)
EXTENDS Integers, Sequences, FiniteSets, TLC

VARIABLES
    now,              \* the wall clock, in seconds (datetime.now / utcnow)
    animals_table,    \* the rows of table 'animals', in insertion order
    tables,           \* the tables the database holds
    saved_ok,         \* history: external ids a save_animal call returned a row for
    token,            \* PetfinderAPI.token
    token_expires,    \* PetfinderAPI.token_expires
    srv_issued_at,    \* the token endpoint: when it issued its latest token
    srv_expires_in,   \* the token endpoint: that token's expires_in (0: none issued)
    src_total_pages,  \* the listing endpoint: how many pages of animals it holds
    src_per_page,     \* the listing endpoint: the animals on each of its pages
    src_reports,      \* the listing endpoint: whether it sends pagination.total_pages
    pc,               \* collect_animals: where the run is
    max_animals,      \* collect_animals: its max_animals argument
    page,             \* collect_animals: its page counter
    collected_count,  \* collect_animals: collected_count
    batch,            \* collect_animals: the list get_animals returned
    idx,              \* collect_animals: the place in batch of the record saved next
    ga_filters,       \* get_animals: the filters it was called with
    ga_page,          \* get_animals: page
    sent,             \* history: the params of the latest listing request
    ga_animals,       \* get_animals: animals
    ret,              \* collect_animals: the value returned
    outcome,          \* history: why the run stopped
    requests,         \* history: the page of every listing request of the run, in order
    ga_first,         \* history: the listing requests made before the current get_animals call
    ga_failed,        \* history: a request of the current get_animals call returned no batch
    run_failed,       \* history: a listing request of the run returned no batch
    save_calls,       \* history: the save_animal calls of the run
    save_fails,       \* history: those that returned None
    faulted,          \* the network or the database has failed once in this run
    driver,           \* collect_sample_data / collect_by_region: the call and its locals
    last              \* history: what the most recent operation did

storeVars == <<animals_table, saved_ok, tables>>
apiVars == <<token, token_expires, srv_issued_at, srv_expires_in>>
srcVars == <<src_total_pages, src_per_page, src_reports>>
runVars == <<pc, max_animals, page, collected_count, batch, idx, ga_page, ga_animals, ret,
             outcome, requests, ga_first, ga_failed, run_failed, save_calls, save_fails,
             faulted, driver, ga_filters, sent>>
vars == <<now, animals_table, saved_ok, tables, token, token_expires, srv_issued_at,
          srv_expires_in, src_total_pages, src_per_page, src_reports, pc, max_animals,
          page, collected_count, batch, idx, ga_page, ga_animals, ret, outcome, requests,
          ga_first, ga_failed, run_failed, save_calls, save_fails, faulted, driver,
          ga_filters, sent,
          last>>

(***************************************************************************)
(* Bounds of the model.                                                    *)
(***************************************************************************)
\* the last second of the clock when the store is exercised on its own
MaxClock == 2
\* the last second of the clock when the API client is exercised
MaxTime == 650
\* the most pages, and the most animals on a page, the listing endpoint holds
MaxPages == 3
MaxPerPage == 3
\* the most turns of collect_animals' loop that are followed with their history
MaxPasses == 2
\* the last second of the clock during a collection run
MaxRunTime == 300

(***************************************************************************)
(* Python values.  Every value is a record of one shape, so that any two   *)
(* values can be compared: k is the type, n the number of an int or bool,  *)
(* l the chunks of a str (a str is the concatenation of its chunks; digits *)
(* and the letter Z are always chunks of their own) or the items of a list.*)
(* A dict is flattened: the payload maps key PATHS to values, and a nested *)
(* dict is the value VDict at its path with its items at longer paths.     *)
(***************************************************************************)
None == [k |-> "none", n |-> 0, l |-> <<>>]
VStr(chunks) == [k |-> "str", n |-> 0, l |-> chunks]
VInt(i) == [k |-> "int", n |-> i, l |-> <<>>]
VBool(b) == [k |-> "bool", n |-> IF b THEN 1 ELSE 0, l |-> <<>>]
VList(items) == [k |-> "list", n |-> 0, l |-> items]
VDict == [k |-> "dict", n |-> 0, l |-> <<>>]
\* a datetime: its date and time of day, and its UTC offset ("" when naive)
VDateTime(dt, off) == [k |-> "datetime", n |-> 0, l |-> <<dt, off>>]

\* bool(v), as `if v:` and `not v` evaluate a value
Truthy(v) ==
    CASE v.k = "none" -> FALSE
      [] v.k = "str" -> v.l # <<>>
      [] v.k = "int" -> v.n # 0
      [] v.k = "bool" -> v.n = 1
      [] v.k = "list" -> v.l # <<>>
      [] OTHER -> TRUE

DigitChar(d) == <<"0", "1", "2", "3", "4", "5", "6", "7", "8", "9">>[d + 1]

RECURSIVE Digits(_)
Digits(i) == IF i < 10 THEN <<DigitChar(i)>> ELSE Append(Digits(i \div 10), DigitChar(i % 10))

\* str(v) of an id: the decimal digits of an int, a str itself
str(v) ==
    CASE v.k = "int" -> VStr(Digits(v.n))
      [] v.k = "str" -> v
      [] v.k = "none" -> VStr(<<"None">>)
      [] v.k = "bool" -> VStr(<<IF v.n = 1 THEN "True" ELSE "False">>)
      [] OTHER -> VStr(<<"<", v.k, ">">>)

\* an evaluation that either yields a value or raises
Ok(v) == [ok |-> TRUE, v |-> v]
Raise(e) == [ok |-> FALSE, v |-> VStr(<<e>>)]

\* data.get(key) and data.get(key, default) on the payload
Has(data, path) == path \in DOMAIN data
Get(data, path) == IF Has(data, path) THEN data[path] ELSE None
GetDefault(data, path, default) == IF Has(data, path) THEN data[path] ELSE default

\* (mutant) the section is read as parent[name]: KeyError when it is missing
SectionGetStrict(data, path, key) ==
    IF ~Has(data, path) THEN Raise("KeyError")
    ELSE IF data[path].k = "dict" THEN Ok(Get(data, Append(path, key)))
    ELSE Raise("AttributeError")

\* (mutant) a null section is read as an empty one
SectionGetLenient(data, path, key) ==
    LET section == GetDefault(data, path, VDict)
    IN IF section.k \in {"dict", "none"} THEN Ok(Get(data, Append(path, key)))
       ELSE Raise("AttributeError")

\* section.get(key) where section = parent.get(name, {}) lives at `path`:
\* raises AttributeError unless the section is a dict
SectionGet(data, path, key) ==
    LET section == GetDefault(data, path, VDict)
    IN IF section.k = "dict" THEN Ok(Get(data, Append(path, key)))
       ELSE Raise("AttributeError")

(***************************************************************************)
(* Timestamps: s.replace('Z', '+00:00') and datetime.fromisoformat.        *)
(***************************************************************************)
DateTimeChunks == {"2023-05-01T12:00:00", "2023-06-02T08:30:00"}
OffsetChunks == {"+00:00", "-05:00"}

\* (mutant) the string is parsed as it came
ReplaceZNot(chunks) == chunks

ReplaceZ(chunks) == [i \in 1..Len(chunks) |-> IF chunks[i] = "Z" THEN "+00:00" ELSE chunks[i]]

fromisoformat(chunks) ==
    IF Len(chunks) = 1 /\ chunks[1] \in DateTimeChunks
        THEN Ok(VDateTime(chunks[1], ""))
    ELSE IF Len(chunks) = 2 /\ chunks[1] \in DateTimeChunks /\ chunks[2] \in OffsetChunks
        THEN Ok(VDateTime(chunks[1], chunks[2]))
    ELSE Raise("ValueError")

\* datetime.fromisoformat(data[key].replace('Z', '+00:00')) if data.get(key) else None
ParseTimestamp(data, path) ==
    LET v == Get(data, path)
    IN IF ~Truthy(v) THEN Ok(None)
       ELSE IF v.k # "str" THEN Raise("AttributeError")
       ELSE fromisoformat(ReplaceZ(v.l))

(***************************************************************************)
(* database.py: the normalizer.                                            *)
(***************************************************************************)
SectionPaths == {<<"breeds">>, <<"colors">>, <<"attributes">>, <<"environment">>,
                 <<"contact">>, <<"contact", "address">>}

\* the value of a column taken from a nested section (None when the read raises)
Sub(data, path, key) == SectionGet(data, path, key).v

\* _create_animal_from_data: the Animal built from a payload, or the exception
CreateAnimalFromData(data) ==
    LET published == ParseTimestamp(data, <<"published_at">>)
        changed == ParseTimestamp(data, <<"status_changed_at">>)
    IN IF \E p \in SectionPaths : ~SectionGet(data, p, "x").ok
           THEN Raise("AttributeError")
       ELSE IF ~Has(data, <<"id">>) THEN Raise("KeyError")
       ELSE IF ~published.ok THEN published
       ELSE IF ~changed.ok THEN changed
       ELSE Ok([
           id |-> 0,
           petfinder_id |-> str(data[<<"id">>]),
           organization_id |-> Get(data, <<"organization_id">>),
           name |-> Get(data, <<"name">>),
           species |-> Get(data, <<"species">>),
           breed_primary |-> Sub(data, <<"breeds">>, "primary"),
           breed_secondary |-> Sub(data, <<"breeds">>, "secondary"),
           breed_mixed |-> Sub(data, <<"breeds">>, "mixed"),
           breed_unknown |-> Sub(data, <<"breeds">>, "unknown"),
           age |-> Get(data, <<"age">>),
           gender |-> Get(data, <<"gender">>),
           size |-> Get(data, <<"size">>),
           coat |-> Get(data, <<"coat">>),
           color_primary |-> Sub(data, <<"colors">>, "primary"),
           color_secondary |-> Sub(data, <<"colors">>, "secondary"),
           color_tertiary |-> Sub(data, <<"colors">>, "tertiary"),
           status |-> Get(data, <<"status">>),
           spayed_neutered |-> Sub(data, <<"attributes">>, "spayed_neutered"),
           house_trained |-> Sub(data, <<"attributes">>, "house_trained"),
           declawed |-> Sub(data, <<"attributes">>, "declawed"),
           special_needs |-> Sub(data, <<"attributes">>, "special_needs"),
           shots_current |-> Sub(data, <<"attributes">>, "shots_current"),
           good_with_children |-> Sub(data, <<"environment">>, "children"),
           good_with_dogs |-> Sub(data, <<"environment">>, "dogs"),
           good_with_cats |-> Sub(data, <<"environment">>, "cats"),
           description |-> Get(data, <<"description">>),
           photos |-> GetDefault(data, <<"photos">>, VList(<<>>)),
           videos |-> GetDefault(data, <<"videos">>, VList(<<>>)),
           city |-> Sub(data, <<"contact", "address">>, "city"),
           state |-> Sub(data, <<"contact", "address">>, "state"),
           postcode |-> Sub(data, <<"contact", "address">>, "postcode"),
           country |-> Sub(data, <<"contact", "address">>, "country"),
           published_at |-> published.v,
           status_changed_at |-> changed.v,
           distance |-> Get(data, <<"distance">>),
           scraped_at |-> 0,
           last_updated |-> 0,
           raw_data |-> data ])

\* (mutant) an update that refreshes the name as well
UpdateAnimalAlsoName(animal, data) ==
    LET changed == ParseTimestamp(data, <<"status_changed_at">>)
    IN IF ~changed.ok THEN changed
       ELSE Ok([animal EXCEPT
           !.name = Get(data, <<"name">>),
           !.status = Get(data, <<"status">>),
           !.description = Get(data, <<"description">>),
           !.photos = GetDefault(data, <<"photos">>, VList(<<>>)),
           !.status_changed_at =
               IF Truthy(Get(data, <<"status_changed_at">>)) THEN changed.v ELSE @,
           !.raw_data = data ])

\* (mutant) an update without status_changed_at clears the stored one
UpdateAnimalClearsChanged(animal, data) ==
    LET changed == ParseTimestamp(data, <<"status_changed_at">>)
    IN IF ~changed.ok THEN changed
       ELSE Ok([animal EXCEPT
           !.status = Get(data, <<"status">>),
           !.description = Get(data, <<"description">>),
           !.photos = GetDefault(data, <<"photos">>, VList(<<>>)),
           !.status_changed_at =
               IF Truthy(Get(data, <<"status_changed_at">>)) THEN changed.v ELSE None,
           !.raw_data = data ])

\* _update_animal_from_data: the row with the refreshed fields, or the exception
UpdateAnimalFromData(animal, data) ==
    LET changed == ParseTimestamp(data, <<"status_changed_at">>)
    IN IF ~changed.ok THEN changed
       ELSE Ok([animal EXCEPT
           !.status = Get(data, <<"status">>),
           !.description = Get(data, <<"description">>),
           !.photos = GetDefault(data, <<"photos">>, VList(<<>>)),
           !.status_changed_at =
               IF Truthy(Get(data, <<"status_changed_at">>)) THEN changed.v ELSE @,
           !.raw_data = data ])

(***************************************************************************)
(* database.py: the store.  The table is the sequence of its rows.         *)
(***************************************************************************)
\* (mutant) the query without its filter_by: the first row of the table, whatever its id
QueryFirstUnfiltered(table, pid) == IF Len(table) > 0 THEN 1 ELSE 0

\* session.query(Animal).filter_by(petfinder_id=pid).first(): the row's place, 0 if none
QueryFirst(table, pid) ==
    IF \E i \in 1..Len(table) : table[i].petfinder_id = pid
        THEN CHOOSE i \in 1..Len(table) :
                 /\ table[i].petfinder_id = pid
                 /\ \A j \in 1..(i - 1) : table[j].petfinder_id # pid
        ELSE 0

\* Column(String(50), unique=True, nullable=False) on petfinder_id
UniqueOk(table, row) == \A i \in 1..Len(table) : table[i].petfinder_id # row.petfinder_id

\* the tables of Base.metadata: Animal and Organization
MetadataTables == {"animals", "organizations"}

\* Base.metadata.create_all(engine): the tables that are absent are created
CreateAll(tabs) == tabs \cup MetadataTables

\* (mutant) the table is created anew, empty, whether it was there or not
RowsAfterRecreate(tabs, rows) == <<>>

\* the rows of 'animals' after create_all: a table that was there is left alone
RowsAfterCreate(tabs, rows) == IF "animals" \in tabs THEN rows ELSE <<>>

\* (mutant) last_updated has no default and is left unset by the insert
InsertRowUnstamped(table, row) ==
    Append(table, [row EXCEPT !.id = Len(table) + 1, !.scraped_at = now, !.last_updated = -1])

\* INSERT at flush: the primary key and the two default=datetime.utcnow columns
InsertRow(table, row) ==
    Append(table, [row EXCEPT !.id = Len(table) + 1, !.scraped_at = now, !.last_updated = now])

\* the faults the database can raise in one save_animal call
DbFaults == {"none", "query", "commit"}

\* an Animal instance, as save_animal returns it
AnimalObject == [k |-> "object", n |-> 0, l |-> <<"Animal">>]

\* the body of save_animal's try: the exception raised ("" if none), and the table
\* as the session sees it when the body ends (committed only if nothing was raised)
SaveAnimalTry(table, data, fault) ==
    IF ~Has(data, <<"id">>) THEN [raised |-> "KeyError", session |-> table]
    ELSE IF fault = "query" \/ "animals" \notin tables
        THEN [raised |-> "OperationalError", session |-> table]
    ELSE LET existing == QueryFirst(table, str(data[<<"id">>]))
         IN IF existing # 0
             THEN LET upd == UpdateAnimalFromData(table[existing], data)
                  IN IF ~upd.ok THEN [raised |-> upd.v.l[1], session |-> table]
                     ELSE LET animal == [upd.v EXCEPT !.last_updated = now]
                              t == [table EXCEPT ![existing] = animal]
                          IN [raised |-> IF fault = "commit" THEN "OperationalError" ELSE "",
                              session |-> t]
             ELSE LET new == CreateAnimalFromData(data)
                  IN IF ~new.ok THEN [raised |-> new.v.l[1], session |-> table]
                     ELSE LET t == InsertRow(table, new.v)
                          IN [raised |-> IF fault = "commit" THEN "OperationalError"
                                         ELSE IF ~UniqueOk(table, new.v) THEN "IntegrityError"
                                         ELSE "",
                              session |-> t]

\* (mutant) a handler for database errors only
CatchesDatabaseErrors(raised) == raised \in {"OperationalError", "IntegrityError"}

\* `except Exception as e:` catches whatever the body raises
Catches(raised) == raised # ""

\* session.rollback(): the table is what it was before the session's changes
Rollback(table, session) == table

\* save_animal: the table after the call, the value returned (an Animal, or None),
\* the exception its handler caught and the exception that escaped it ("" if none)
SaveAnimal(table, data, fault) ==
    LET body == SaveAnimalTry(table, data, fault)
    IN IF body.raised = ""
           THEN [table |-> body.session, ret |-> AnimalObject, caught |-> "", escaped |-> ""]
       ELSE IF Catches(body.raised)
           THEN [table |-> Rollback(table, body.session), ret |-> None,
                 caught |-> body.raised, escaped |-> ""]
       ELSE [table |-> Rollback(table, body.session), ret |-> None,
             caught |-> "", escaped |-> body.raised]

(***************************************************************************)
(* Source records.  Full(idv, ver) is a complete Petfinder animal, every   *)
(* field of version 2 differing from version 1; the others lack parts.     *)
(***************************************************************************)
Txt(ver, a, b) == VStr(<<IF ver = 1 THEN a ELSE b>>)

Full(idv, ver) ==
    (<<"id">> :> idv) @@
    (<<"organization_id">> :> Txt(ver, "CA100", "NY200")) @@
    (<<"name">> :> Txt(ver, "Rex", "Tom")) @@
    (<<"species">> :> Txt(ver, "Dog", "Cat")) @@
    (<<"breeds">> :> VDict) @@
    (<<"breeds", "primary">> :> Txt(ver, "Beagle", "Siamese")) @@
    (<<"breeds", "secondary">> :> Txt(ver, "Boxer", "Persian")) @@
    (<<"breeds", "mixed">> :> VBool(ver = 1)) @@
    (<<"breeds", "unknown">> :> VBool(ver = 2)) @@
    (<<"age">> :> Txt(ver, "Young", "Senior")) @@
    (<<"gender">> :> Txt(ver, "Male", "Female")) @@
    (<<"size">> :> Txt(ver, "Large", "Small")) @@
    (<<"coat">> :> Txt(ver, "Short", "Long")) @@
    (<<"colors">> :> VDict) @@
    (<<"colors", "primary">> :> Txt(ver, "Brown", "White")) @@
    (<<"colors", "secondary">> :> Txt(ver, "Black", "Gray")) @@
    (<<"colors", "tertiary">> :> Txt(ver, "Tan", "Cream")) @@
    (<<"status">> :> Txt(ver, "adoptable", "adopted")) @@
    (<<"attributes">> :> VDict) @@
    (<<"attributes", "spayed_neutered">> :> VBool(ver = 1)) @@
    (<<"attributes", "house_trained">> :> VBool(ver = 2)) @@
    (<<"attributes", "declawed">> :> VBool(ver = 1)) @@
    (<<"attributes", "special_needs">> :> VBool(ver = 2)) @@
    (<<"attributes", "shots_current">> :> VBool(ver = 1)) @@
    (<<"environment">> :> VDict) @@
    (<<"environment", "children">> :> VBool(ver = 2)) @@
    (<<"environment", "dogs">> :> VBool(ver = 1)) @@
    (<<"environment", "cats">> :> VBool(ver = 2)) @@
    (<<"description">> :> Txt(ver, "A friendly dog", "A quiet cat")) @@
    (<<"photos">> :> VList(IF ver = 1 THEN <<"photo1">> ELSE <<"photo2", "photo3">>)) @@
    (<<"videos">> :> VList(IF ver = 1 THEN <<"video1">> ELSE <<>>)) @@
    (<<"contact">> :> VDict) @@
    (<<"contact", "address">> :> VDict) @@
    (<<"contact", "address", "city">> :> Txt(ver, "Beverly Hills", "New York")) @@
    (<<"contact", "address", "state">> :> Txt(ver, "CA", "NY")) @@
    (<<"contact", "address", "postcode">> :> Txt(ver, "90210", "10001")) @@
    (<<"contact", "address", "country">> :> Txt(ver, "US", "CA")) @@
    (<<"published_at">> :>
        VStr(IF ver = 1 THEN <<"2023-05-01T12:00:00", "Z">>
                        ELSE <<"2023-06-02T08:30:00", "-05:00">>)) @@
    (<<"status_changed_at">> :>
        VStr(IF ver = 1 THEN <<"2023-05-01T12:00:00", "Z">>
                        ELSE <<"2023-06-02T08:30:00", "Z">>)) @@
    (<<"distance">> :> VInt(IF ver = 1 THEN 12 ELSE 40))

\* the payload without the keys at or below the paths in `gone`
Without(data, gone) ==
    [p \in {q \in DOMAIN data :
               \A g \in gone : ~(Len(q) >= Len(g) /\ SubSeq(q, 1, Len(g)) = g)} |-> data[p]]

\* a record of nothing but its id
Sparse(idv) == (<<"id">> :> idv)
\* a record whose attributes section is null
NullAttributes(idv) == (<<"attributes">> :> None) @@ Without(Full(idv, 2), {<<"attributes">>})
\* a record whose status_changed_at is no ISO-8601 timestamp
BadChanged(idv) == (<<"status_changed_at">> :> VStr(<<"yesterday">>)) @@ Full(idv, 2)
\* a record with no id
NoId == Without(Full(VInt(1), 1), {<<"id">>})

\* the records fed to the store on its own
StoreInputs ==
    { Full(VInt(1), 1), Full(VInt(1), 2), Sparse(VStr(<<"1">>)), NullAttributes(VInt(1)),
      BadChanged(VInt(1)), NoId, Full(VInt(2), 1), NullAttributes(VInt(2)) }

(***************************************************************************)
(* The clock, and the state after construction.                            *)
(***************************************************************************)
Idle == [op |-> "none"]

\* neither collect_sample_data nor collect_by_region has been called
NoDriver ==
    [op |-> "none", sets |-> <<>>, cap |-> None, n |-> 0, i |-> 0, started |-> <<>>,
     rets |-> <<>>, total |-> VInt(0), saved |-> 0, status |-> "none", ret |-> None]

\* the empty dict of filters or params
NoFilters == [k \in {} |-> 0]

\* d seconds pass
Tick(d, limit) ==
    /\ now + d <= limit
    /\ now' = now + d
    /\ last' = Idle
    /\ UNCHANGED <<storeVars, apiVars, srcVars, runVars>>

\* PetfinderAPI.__init__
InitApi ==
    /\ token = None
    /\ token_expires = None
    /\ srv_issued_at = 0
    /\ srv_expires_in = 0

\* no collect_animals call has been made
InitRun ==
    /\ pc = "idle"
    /\ max_animals = None
    /\ page = 0
    /\ collected_count = 0
    /\ batch = <<>>
    /\ idx = 0
    /\ ga_page = 0
    /\ ga_animals = <<>>
    /\ ret = None
    /\ outcome = ""
    /\ requests = <<>>
    /\ ga_first = 0
    /\ ga_failed = FALSE
    /\ run_failed = FALSE
    /\ save_calls = 0
    /\ save_fails = 0
    /\ faulted = FALSE
    /\ driver = NoDriver
    /\ ga_filters = NoFilters
    /\ sent = NoFilters

\* the listing endpoint serves a fixed collection during a run
InitSource ==
    /\ src_total_pages \in 0..MaxPages
    /\ src_per_page \in 1..MaxPerPage
    /\ src_reports \in BOOLEAN

(***************************************************************************)
(* petfinder_api.py: the token manager and one authenticated request.      *)
(***************************************************************************)
\* the safety margin of `timedelta(seconds=token_data['expires_in'] - 300)`
RefreshMargin == 300

\* what the token endpoint may answer: a token with its expires_in, or an error
ExpiresInValues == {600, 3600}
AuthResponses ==
    {[ok |-> FALSE, expires_in |-> 0]} \cup {[ok |-> TRUE, expires_in |-> e] : e \in ExpiresInValues}

\* (mutant) an expiry without the safety margin
TokenExpiresNoMargin(t, expires_in) == t + expires_in

\* datetime.now() + timedelta(seconds=token_data['expires_in'] - 300)
TokenExpires(t, expires_in) == t + expires_in - RefreshMargin

\* (mutant) authenticate reports success whatever the token endpoint answered
AuthenticateNeverFails(resp) ==
    IF resp.ok
        THEN [token |-> VStr(<<"access_token">>),
              token_expires |-> TokenExpires(now, resp.expires_in), ret |-> TRUE]
        ELSE [token |-> token, token_expires |-> token_expires, ret |-> TRUE]

\* (mutant) a failed authenticate clears the token held
AuthenticateClearsToken(resp) ==
    IF resp.ok
        THEN [token |-> VStr(<<"access_token">>),
              token_expires |-> TokenExpires(now, resp.expires_in), ret |-> TRUE]
        ELSE [token |-> None, token_expires |-> None, ret |-> FALSE]

\* authenticate: the client's token and expiry after the call, and what it returns
Authenticate(resp) ==
    IF resp.ok
        THEN [token |-> VStr(<<"access_token">>),
              token_expires |-> TokenExpires(now, resp.expires_in), ret |-> TRUE]
        ELSE [token |-> token, token_expires |-> token_expires, ret |-> FALSE]

\* (mutant) a token is refreshed only once its expiry has passed
NeedsTokenLate(tok, expires, t) == ~Truthy(tok) \/ t > expires

\* _ensure_token_valid's test: not self.token or datetime.now() >= self.token_expires
NeedsToken(tok, expires, t) == ~Truthy(tok) \/ t >= expires

\* the animals on page p of the listing, each named by its id
PageRecords(p) ==
    IF p \in 1..src_total_pages
        THEN [i \in 1..src_per_page |-> (p - 1) * src_per_page + i]
        ELSE <<>>

\* what the network and the listing endpoint may do with an accepted request
NetOutcomes == {"ok", "no_animals_key", "error"}

\* response.json() of a listing request, or None: `ok` tells a dict from None
NoData == [ok |-> FALSE, has_animals |-> FALSE, animals |-> <<>>,
           has_total |-> FALSE, total_pages |-> 0]
ListingData(p, net) ==
    [ok |-> TRUE, has_animals |-> net = "ok",
     animals |-> IF net = "ok" THEN PageRecords(p) ELSE <<>>,
     has_total |-> src_reports, total_pages |-> src_total_pages]

\* _make_request('animals', {..., 'page': p}): the token is checked and refreshed,
\* the request is sent with whatever token is then held, and the endpoint honours a
\* token it issued for expires_in seconds; any failure returns None
MakeRequest(p, resp, net) ==
    LET reauth == NeedsToken(token, token_expires, now)
        auth == IF reauth THEN Authenticate(resp)
                ELSE [token |-> token, token_expires |-> token_expires, ret |-> TRUE]
        issued == reauth /\ resp.ok
        issued_at == IF issued THEN now ELSE srv_issued_at
        expires_in == IF issued THEN resp.expires_in ELSE srv_expires_in
        accepted == Truthy(auth.token) /\ expires_in > 0 /\ now < issued_at + expires_in
    IN [token |-> auth.token, token_expires |-> auth.token_expires,
        srv_issued_at |-> issued_at, srv_expires_in |-> expires_in,
        reauth |-> reauth, auth_ok |-> auth.ret, bearer |-> auth.token,
        data |-> IF accepted /\ net # "error" THEN ListingData(p, net) ELSE NoData]

\* api.authenticate() called on its own
AuthenticateCall(resp) ==
    LET a == Authenticate(resp)
    IN /\ token' = a.token
       /\ token_expires' = a.token_expires
       /\ srv_issued_at' = IF resp.ok THEN now ELSE srv_issued_at
       /\ srv_expires_in' = IF resp.ok THEN resp.expires_in ELSE srv_expires_in
       /\ last' = [op |-> "authenticate", ret |-> a.ret]
       /\ UNCHANGED <<now, storeVars, srcVars, runVars>>

\* one listing request made on its own
RequestCall(p, resp, net) ==
    LET r == MakeRequest(p, resp, net)
    IN /\ token' = r.token
       /\ token_expires' = r.token_expires
       /\ srv_issued_at' = r.srv_issued_at
       /\ srv_expires_in' = r.srv_expires_in
       /\ last' = [op |-> "request", at |-> now, had_token |-> Truthy(token),
                   issued_at |-> srv_issued_at, expires_in |-> srv_expires_in,
                   reauth |-> r.reauth, auth_ok |-> r.auth_ok, bearer |-> r.bearer,
                   got |-> r.data.ok, records |-> Len(r.data.animals)]
       /\ UNCHANGED <<now, storeVars, srcVars, runVars>>

InitToken ==
    /\ now = 0
    /\ animals_table = <<>>
    /\ saved_ok = {}
    /\ tables = MetadataTables
    /\ last = Idle
    /\ InitApi
    /\ InitRun
    /\ src_total_pages = 1 /\ src_per_page = 1 /\ src_reports = TRUE

\* the instants at which the API client is observed: around every 50th second
Instants == {t \in 0..MaxTime : t % 50 \in {0, 1, 49}}

NextToken ==
    \/ \E t \in Instants : t > now /\ Tick(t - now, MaxTime)
    \/ \E resp \in AuthResponses : AuthenticateCall(resp)
    \/ \E resp \in AuthResponses, net \in NetOutcomes : RequestCall(1, resp, net)

SpecToken == InitToken /\ [][NextToken]_vars

(***************************************************************************)
(* The store on its own: save_animal called with any record at any time.   *)
(***************************************************************************)
SaveAnimalCall(data, fault) ==
    LET r == SaveAnimal(animals_table, data, fault)
    IN /\ animals_table' = r.table
       /\ saved_ok' = IF Truthy(r.ret) THEN saved_ok \cup {str(data[<<"id">>])} ELSE saved_ok
       /\ last' = [op |-> "save_animal", ret |-> r.ret, caught |-> r.caught,
                   escaped |-> r.escaped,
                   found |-> Has(data, <<"id">>)
                             /\ QueryFirst(animals_table, str(data[<<"id">>])) # 0]
       /\ UNCHANGED <<now, tables, apiVars, srcVars, runVars>>

InitStore ==
    /\ now = 0
    /\ animals_table = <<>>
    /\ saved_ok = {}
    /\ tables = MetadataTables
    /\ last = Idle
    /\ InitApi
    /\ InitRun
    /\ src_total_pages = 0 /\ src_per_page = 1 /\ src_reports = TRUE

NextStore ==
    \/ Tick(1, MaxClock)
    \/ \E data \in StoreInputs, fault \in DbFaults : SaveAnimalCall(data, fault)

SpecStore == InitStore /\ [][NextStore]_vars

\* create_tables()
CreateTablesCall ==
    /\ tables' = CreateAll(tables)
    /\ animals_table' = RowsAfterCreate(tables, animals_table)
    /\ last' = [op |-> "create_tables", had |-> tables]
    /\ UNCHANGED <<now, saved_ok, apiVars, srcVars, runVars>>

\* a database without tables, as DatabaseManager.__init__ may find it
InitSchema ==
    /\ now = 0
    /\ animals_table = <<>>
    /\ saved_ok = {}
    /\ tables = {}
    /\ last = Idle
    /\ InitApi
    /\ InitRun
    /\ src_total_pages = 0 /\ src_per_page = 1 /\ src_reports = TRUE

SchemaInputs == {Full(VInt(1), 1), Full(VInt(1), 2), Full(VInt(2), 1), NoId}

NextSchema ==
    \/ Tick(1, MaxClock)
    \/ CreateTablesCall
    \/ \E data \in SchemaInputs : SaveAnimalCall(data, "none")

SpecSchema == InitSchema /\ [][NextSchema]_vars

\* the store fed with records of every kind of timestamp: absent, null, with a
\* trailing Z, with a numeric offset
TimestampFields ==
    {[has |-> FALSE, v |-> None], [has |-> TRUE, v |-> None]} \cup
    {[has |-> TRUE, v |-> VStr(<<d, o>>)] : d \in DateTimeChunks, o \in {"Z", "-05:00"}}

Field(path, f) == IF f.has THEN (path :> f.v) ELSE <<>>

WithTimestamps(p, c) ==
    Field(<<"published_at">>, p) @@ Field(<<"status_changed_at">>, c) @@
    Without(Full(VInt(1), 1), {<<"published_at">>, <<"status_changed_at">>})

TimestampInputs == {WithTimestamps(p, c) : p, c \in TimestampFields}

NextTimestamps == \E data \in TimestampInputs : SaveAnimalCall(data, "none")

SpecTimestamps == InitStore /\ [][NextTimestamps]_vars

\* the store fed with records that lack nested sections, and nothing else
SectionlessInputs == {Without(Full(VInt(1), 1), gone) : gone \in SUBSET SectionPaths}

NextSections == \E data \in SectionlessInputs : SaveAnimalCall(data, "none")

SpecSections == InitStore /\ [][NextSections]_vars

\* the store fed with versions of one animal that lack the fields an update refreshes
UpdateInputs ==
    { Full(VInt(1), 1), Full(VInt(1), 2), Sparse(VInt(1)),
      (<<"status_changed_at">> :> None) @@ Full(VInt(1), 2) }
    \cup {Without(Full(VInt(1), 2), {<<key>>}) :
              key \in {"status", "description", "photos", "status_changed_at"}}

NextUpdates ==
    \/ Tick(1, MaxClock)
    \/ \E data \in UpdateInputs : SaveAnimalCall(data, "none")

SpecUpdates == InitStore /\ [][NextUpdates]_vars

\* the nested sections of a source record
SectionNames == {"breeds", "colors", "attributes", "environment", "contact"}

\* a record whose section `name` is null
NullSection(idv, name) == (<<name>> :> None) @@ Without(Full(idv, 1), {<<name>>})

\* the store fed with records that hold a null section, and with one complete record
NullSectionInputs ==
    {Full(VInt(1), 2)} \cup
    {NullSection(idv, name) : idv \in {VInt(1), VInt(2)}, name \in SectionNames}

NextNulls ==
    \/ Tick(1, MaxClock)
    \/ \E data \in NullSectionInputs : SaveAnimalCall(data, "none")

SpecNulls == InitStore /\ [][NextNulls]_vars

(***************************************************************************)
(* data_collector.py: collect_animals, step by step.  A run is followed    *)
(* either with its history (`bounded`: the requests are logged and at most *)
(* MaxPasses turns of its loop are followed) or without (the log and the   *)
(* counters no test of the code reads are left out: the run may go on).    *)
(***************************************************************************)
\* the values of max_animals: None (collect all) or a count
MaxAnimalsValues == {None, VInt(0), VInt(1), VInt(2)}

\* the record the listing names by id r: an animal of few fields
SourceRecord(r) ==
    (<<"id">> :> VInt(r)) @@
    (<<"name">> :> VStr(<<"Rex">>)) @@
    (<<"status">> :> VStr(<<"adoptable">>)) @@
    (<<"attributes">> :> VDict) @@
    (<<"attributes", "declawed">> :> VBool(FALSE)) @@
    (<<"published_at">> :> VStr(<<"2023-05-01T12:00:00", "Z">>))

\* counts from here on are not told apart when no history is kept
CountCap == 3

\* (mutant) a count goes up by two
CountTwice(bounded, c) == IF bounded \/ c < CountCap THEN c + 2 ELSE c

\* collected_count += 1, page += 1
Count(bounded, c) == IF bounded \/ c < CountCap THEN c + 1 ELSE c

\* collect_animals(filters, max_animals) is called
Start(m) ==
    /\ pc = "idle"
    /\ pc' = "authenticate"
    /\ max_animals' = m
    /\ last' = Idle
    /\ UNCHANGED <<now, storeVars, apiVars, srcVars, page, collected_count, batch, idx,
                   ga_page, ga_animals, ret, outcome, requests, ga_first, ga_failed,
                   run_failed, save_calls, save_fails, faulted, ga_filters, sent>>

\* `if not self.api.authenticate(): return`, then the locals are set
AuthenticateStep(resp) ==
    LET a == Authenticate(resp)
    IN /\ pc = "authenticate"
       /\ token' = a.token
       /\ token_expires' = a.token_expires
       /\ srv_issued_at' = IF resp.ok THEN now ELSE srv_issued_at
       /\ srv_expires_in' = IF resp.ok THEN resp.expires_in ELSE srv_expires_in
       /\ IF a.ret
              THEN /\ pc' = "fetch"
                   /\ collected_count' = 0
                   /\ page' = 1
                   /\ UNCHANGED <<ret, outcome>>
              ELSE /\ pc' = "stopped"
                   /\ outcome' = "auth-failed"
                   /\ ret' = None
                   /\ UNCHANGED <<collected_count, page>>
       /\ last' = Idle
       /\ UNCHANGED <<now, storeVars, srcVars, max_animals, batch, idx, ga_page, ga_animals,
                      requests, ga_first, ga_failed, run_failed, save_calls, save_fails,
                      faulted, driver, ga_filters, sent>>

\* current_filters = {**filters, 'page': page, 'limit': 100}
CurrentFilters(filters, p) ==
    [k \in DOMAIN filters \cup {"page", "limit"} |->
        IF k = "page" THEN p ELSE IF k = "limit" THEN 100 ELSE filters[k]]

\* get_animals(**filters) is entered: animals = [], page = 1
EnterGetAnimals(filters) ==
    /\ ga_filters' = filters
    /\ ga_page' = 1
    /\ ga_animals' = <<>>
    /\ ga_first' = Len(requests)
    /\ ga_failed' = FALSE

\* (mutant) the caller's page, when there is one, is the page requested
ParamsCallerFirst(filters, p) ==
    LET merged == [k \in DOMAIN filters \cup {"page"} |->
                      IF k \in DOMAIN filters THEN filters[k] ELSE p]
    IN IF "limit" \in DOMAIN merged THEN merged
       ELSE [k \in DOMAIN merged \cup {"limit"} |-> IF k = "limit" THEN 100 ELSE merged[k]]

\* params = {**filters, 'page': page}, and params['limit'] = 100 if there is none
Params(filters, p) ==
    LET merged == [k \in DOMAIN filters \cup {"page"} |->
                      IF k = "page" THEN p ELSE filters[k]]
    IN IF "limit" \in DOMAIN merged THEN merged
       ELSE [k \in DOMAIN merged \cup {"limit"} |-> IF k = "limit" THEN 100 ELSE merged[k]]

\* the top of `while True`: get_animals(**current_filters) is entered
FetchStep(bounded) ==
    /\ pc = "fetch"
    /\ bounded => page <= MaxPasses
    /\ pc' = "request"
    /\ EnterGetAnimals(CurrentFilters(NoFilters, page))
    /\ last' = Idle
    /\ UNCHANGED <<now, storeVars, apiVars, srcVars, max_animals, page, collected_count,
                   batch, idx, ret, outcome, requests, run_failed, save_calls, save_fails,
                   faulted, driver, sent>>

\* (mutant) the last page is passed before the loop ends
PastLastPage(p, data) == p > (IF data.has_total THEN data.total_pages ELSE 1)

\* (mutant) without the field no page is the last
LastPageNoDefault(p, data) == data.has_total /\ p >= data.total_pages

\* page >= pagination.get('total_pages', 1)
LastPage(p, data) == p >= (IF data.has_total THEN data.total_pages ELSE 1)

\* (mutant) a failed request discards the pages collected so far
ExtendOrDiscard(animals, nobatch, data) == IF nobatch THEN <<>> ELSE animals \o data.animals

\* `break` leaves animals as it is, otherwise animals.extend(batch)
Extend(animals, nobatch, data) == IF nobatch THEN animals ELSE animals \o data.animals

\* one turn of get_animals' loop: the request for ga_page and what follows it; when
\* the loop ends get_animals returns and collect_animals tests `if not batch`
RequestStep(bounded, resp, net) ==
    LET params == Params(ga_filters, ga_page)
        r == MakeRequest(params["page"], resp, net)
        nobatch == ~r.data.ok \/ ~r.data.has_animals
        animals == Extend(ga_animals, nobatch, r.data)
        done == nobatch \/ r.data.animals = <<>> \/ LastPage(ga_page, r.data)
    IN /\ pc = "request"
       /\ net # "ok" => ~faulted
       \* the token endpoint's answer matters only when it is asked
       /\ r.reauth \/ ~resp.ok
       /\ token' = r.token
       /\ token_expires' = r.token_expires
       /\ srv_issued_at' = r.srv_issued_at
       /\ srv_expires_in' = r.srv_expires_in
       /\ requests' = IF bounded THEN Append(requests, params["page"]) ELSE requests
       /\ sent' = params
       /\ ga_failed' = (bounded /\ (ga_failed \/ nobatch))
       /\ run_failed' = (bounded /\ (run_failed \/ nobatch))
       /\ faulted' = (faulted \/ net # "ok")
       /\ ga_animals' = animals
       /\ IF ~done
              THEN /\ ga_page' = ga_page + 1
                   /\ UNCHANGED <<pc, batch, idx, ret, outcome>>
          ELSE IF animals = <<>>
              THEN /\ pc' = "stopped"
                   /\ outcome' = "exhausted"
                   /\ ret' = VInt(collected_count)
                   /\ batch' = animals
                   /\ UNCHANGED <<ga_page, idx>>
          ELSE /\ pc' = "save"
               /\ batch' = animals
               /\ idx' = 1
               /\ UNCHANGED <<ga_page, ret, outcome>>
       /\ last' = Idle
       /\ UNCHANGED <<now, storeVars, srcVars, max_animals, page, collected_count,
                      ga_first, save_calls, save_fails, driver, ga_filters>>

\* (mutant) the cap is passed before the run returns
CapPassed(m, count) == Truthy(m) /\ count > m.n

\* max_animals and collected_count >= max_animals
CapReached(m, count) == Truthy(m) /\ count >= m.n

\* (mutant) the record counts whatever save_animal did
CountsAnyway(r) == TRUE

\* `if saved_animal:` inside the try: the record counts when save_animal raised
\* nothing and returned a row
Counts(r) == r.escaped = "" /\ Truthy(r.ret)

\* one turn of `for animal_data in batch`: save_animal, the count and the cap; after
\* the last record of the batch, page += 1 and the loop starts over
SaveStep(bounded, fault) ==
    /\ pc = "save"
    /\ fault # "none" => ~faulted
    /\ \E r \in {SaveAnimal(animals_table, SourceRecord(batch[idx]), fault)} :
       LET saved == Counts(r)
           count == IF saved THEN Count(bounded, collected_count) ELSE collected_count
       IN /\ faulted' = (faulted \/ fault # "none")
          /\ animals_table' = r.table
          /\ saved_ok' = IF Truthy(r.ret) THEN saved_ok \cup {str(VInt(batch[idx]))}
                                          ELSE saved_ok
          /\ save_calls' = IF bounded THEN save_calls + 1 ELSE save_calls
          /\ save_fails' = IF bounded /\ (r.escaped # "" \/ ~Truthy(r.ret))
                                THEN save_fails + 1 ELSE save_fails
          /\ collected_count' = count
          /\ IF saved /\ CapReached(max_animals, count)
                 THEN /\ pc' = "stopped"
                      /\ outcome' = "capped"
                      /\ ret' = VInt(count)
                      /\ UNCHANGED <<idx, page>>
             ELSE IF idx < Len(batch)
                 THEN /\ idx' = idx + 1
                      /\ UNCHANGED <<pc, outcome, ret, page>>
             ELSE /\ pc' = "fetch"
                  /\ page' = Count(bounded, page)
                  /\ UNCHANGED <<idx, outcome, ret>>
    /\ last' = Idle
    /\ UNCHANGED <<now, tables, apiVars, srcVars, max_animals, batch, ga_page, ga_animals,
                   requests, ga_first, ga_failed, run_failed, driver, ga_filters, sent>>

\* the faults the database raises during a run
RunFaults == {"none", "commit"}

\* the steps of a run that has been started
RunStep(bounded) ==
    \/ \E resp \in AuthResponses : AuthenticateStep(resp)
    \/ FetchStep(bounded)
    \/ \E resp \in AuthResponses, net \in NetOutcomes : RequestStep(bounded, resp, net)
    \/ \E fault \in RunFaults : SaveStep(bounded, fault)

\* the steps of the program when collect_animals is called on its own
CollectorStep(bounded) ==
    \/ \E m \in MaxAnimalsValues : Start(m) /\ UNCHANGED driver
    \/ RunStep(bounded)

\* time passes while a run waits for the listing endpoint
RunTick == pc = "request" /\ Tick(RefreshMargin, MaxRunTime)

InitCollect ==
    /\ now = 0
    /\ animals_table = <<>>
    /\ saved_ok = {}
    /\ tables = MetadataTables
    /\ last = Idle
    /\ InitApi
    /\ InitRun
    /\ InitSource

NextCollect == CollectorStep(TRUE) \/ RunTick

SpecCollect == InitCollect /\ [][NextCollect]_vars

\* a run without its history: the program always takes its next step
NextRun == CollectorStep(FALSE) \/ RunTick

SpecRun == InitCollect /\ [][NextRun]_vars /\ WF_vars(CollectorStep(FALSE))

(***************************************************************************)
(* petfinder_api.py: get_animals called on its own with filters of the     *)
(* caller's choice; what the caller does with the returned list is not     *)
(* followed.                                                               *)
(***************************************************************************)
MaxRequests == 4

\* a dict of keyword arguments
Filters(keys, page_value, limit_value) ==
    [k \in keys |-> IF k = "page" THEN page_value ELSE limit_value]

\* the keyword arguments get_animals is called with
FilterSets ==
    {Filters(keys, pv, lv) : keys \in SUBSET {"page", "limit"}, pv \in {3}, lv \in {50}}

\* api.get_animals(**filters)
GetAnimalsCall(filters) ==
    /\ pc \in {"idle", "save", "stopped"}
    /\ Len(requests) < MaxRequests
    /\ pc' = "request"
    /\ EnterGetAnimals(filters)
    /\ last' = Idle
    /\ UNCHANGED <<now, storeVars, apiVars, srcVars, max_animals, page, collected_count,
                   batch, idx, ret, outcome, requests, run_failed, save_calls, save_fails,
                   faulted, driver, sent>>

NextFetch ==
    \/ \E filters \in FilterSets : GetAnimalsCall(filters)
    \/ \E resp \in AuthResponses, net \in NetOutcomes : RequestStep(TRUE, resp, net)

SpecFetch == InitCollect /\ [][NextFetch]_vars

(***************************************************************************)
(* data_collector.py: collect_sample_data and collect_by_region, which     *)
(* call collect_animals once per filter set and add up what it returns.    *)
(***************************************************************************)
\* the largest sample_size and the largest animals_per_region that are tried
MaxSample == 4
MaxPerRegion == 2

SampleSizes == 0..MaxSample
PerRegionValues == 0..MaxPerRegion
RegionLists == {<<"A">>, <<"A", "B">>, <<"B", "A">>}

\* a + b on Python values: an int for two ints, TypeError when one is None
Add(a, b) ==
    IF a.k = "int" /\ b.k = "int" THEN Ok(VInt(a.n + b.n)) ELSE Raise("TypeError")

\* collect_sample_data(location, sample_size = n) is called: dogs, then cats
CollectSampleData(n) ==
    /\ driver.op = "none"
    /\ pc = "idle"
    /\ driver' = [NoDriver EXCEPT !.op = "sample", !.sets = <<"dog", "cat">>,
                                  !.cap = VInt(n \div 2), !.n = n, !.status = "running"]
    /\ last' = Idle
    /\ UNCHANGED <<now, storeVars, apiVars, srcVars, pc, max_animals, page,
                   collected_count, batch, idx, ga_page, ga_animals, ret, outcome,
                   requests, ga_first, ga_failed, run_failed, save_calls, save_fails,
                   faulted, ga_filters, sent>>

\* collect_by_region(regions, animals_per_region = per) is called
CollectByRegion(regions, per) ==
    /\ driver.op = "none"
    /\ pc = "idle"
    /\ driver' = [NoDriver EXCEPT !.op = "region", !.sets = regions, !.cap = VInt(per),
                                  !.status = "running"]
    /\ last' = Idle
    /\ UNCHANGED <<now, storeVars, apiVars, srcVars, pc, max_animals, page,
                   collected_count, batch, idx, ga_page, ga_animals, ret, outcome,
                   requests, ga_first, ga_failed, run_failed, save_calls, save_fails,
                   faulted, ga_filters, sent>>

\* (mutant) the filter sets are taken from the end of the list
NextFiltersFromEnd(sets, i) == sets[Len(sets) + 1 - i]

\* the i-th filter set: `for region in regions`, or dogs before cats
NextFilters(sets, i) == sets[i]

\* self.collect_animals(filters, cap) for the next filter set
CallCollectAnimals ==
    /\ driver.status = "running"
    /\ driver.i < Len(driver.sets)
    /\ Start(driver.cap)
    /\ driver' = [driver EXCEPT !.i = @ + 1,
                                !.started = Append(@, NextFilters(driver.sets, driver.i + 1))]

\* the driver's locals after its collect_animals call returned `value`: collect_by_region
\* adds it to total_collected at once, collect_sample_data adds dogs and cats at the end
AfterReturn(d, value) ==
    LET rets == Append(d.rets, value)
        sum == IF d.op = "region" THEN Add(d.total, value)
               ELSE IF Len(rets) = 2 THEN Add(rets[1], rets[2])
               ELSE Ok(d.total)
        done == d.i = Len(d.sets)
    IN IF ~sum.ok
           THEN [d EXCEPT !.rets = rets, !.status = "raised"]
           ELSE [d EXCEPT !.rets = rets, !.total = sum.v,
                          !.status = IF done THEN "returned" ELSE "running",
                          !.ret = IF done THEN sum.v ELSE None]

\* collect_animals has returned to the driver; its locals are gone
ReturnToDriver ==
    /\ pc = "stopped"
    /\ driver.status = "running"
    /\ driver' = [AfterReturn(driver, ret) EXCEPT !.saved = @ + collected_count]
    /\ pc' = "idle"
    /\ max_animals' = None
    /\ page' = 0
    /\ collected_count' = 0
    /\ batch' = <<>>
    /\ idx' = 0
    /\ ga_page' = 0
    /\ ga_animals' = <<>>
    /\ ret' = None
    /\ outcome' = ""
    /\ requests' = <<>>
    /\ ga_first' = 0
    /\ ga_failed' = FALSE
    /\ run_failed' = FALSE
    /\ save_calls' = 0
    /\ save_fails' = 0
    /\ ga_filters' = NoFilters
    /\ sent' = NoFilters
    /\ last' = Idle
    /\ UNCHANGED <<now, storeVars, apiVars, srcVars, faulted>>

\* a step of the collect_animals run the driver is waiting for
DriveStep == driver.status = "running" /\ RunStep(TRUE)

NextDrive ==
    \/ \E n \in SampleSizes : CollectSampleData(n)
    \/ \E regions \in RegionLists, per \in PerRegionValues : CollectByRegion(regions, per)
    \/ CallCollectAnimals
    \/ DriveStep
    \/ ReturnToDriver

SpecDrive == InitCollect /\ [][NextDrive]_vars

(***************************************************************************)
(* Claims about the store (checked under SpecStore).                       *)
(***************************************************************************)
Rows == 1..Len(animals_table)

\* C1: after any sequence of save_animal calls the table holds at most one row per
\* external id (petfinder_id = str(id)), and exactly as many rows as there are
\* distinct external ids that were saved successfully, however often each was saved.
C1_OneRowPerExternalId ==
    /\ \A i, j \in Rows : i # j => animals_table[i].petfinder_id # animals_table[j].petfinder_id
    /\ Len(animals_table) = Cardinality(saved_ok)
    /\ saved_ok = {animals_table[i].petfinder_id : i \in Rows}

\* two ids are stored and the last call saved one of them again, successfully
C1_Witness ==
    /\ Len(animals_table) = 2
    /\ last.op = "save_animal" /\ last.found /\ Truthy(last.ret)

\* the columns no update may touch: the row with its refreshed columns blanked
Ingested(row) ==
    [row EXCEPT !.status = None, !.description = None, !.photos = None,
                !.status_changed_at = None, !.raw_data = <<>>, !.last_updated = 0]

\* C2: a save_animal call changes, in a row already stored, nothing but status,
\* description, photos, status_changed_at, raw_data and last_updated.
C2_UpdateKeepsIngestedFields ==
    [][last'.op = "save_animal" =>
          /\ Len(animals_table') >= Len(animals_table)
          /\ \A i \in Rows : Ingested(animals_table'[i]) = Ingested(animals_table[i])]_vars

\* the last call updated a row whose new payload names the animal differently
C2_Witness ==
    /\ last.op = "save_animal" /\ last.found /\ Truthy(last.ret)
    /\ \E i \in Rows :
          /\ animals_table[i].name # Get(animals_table[i].raw_data, <<"name">>)
          /\ animals_table[i].species # Get(animals_table[i].raw_data, <<"species">>)
          /\ animals_table[i].status = Get(animals_table[i].raw_data, <<"status">>)

\* C3: a save_animal call in which something raises (no 'id', the row cannot be
\* built, the query or the commit fails) leaves the table as it was, returns None
\* and lets no exception escape; and it returns None only when something raised.
C3_FailedSaveChangesNothing ==
    [][last'.op = "save_animal" =>
          /\ last'.escaped = ""
          /\ (last'.caught # "" => animals_table' = animals_table /\ last'.ret = None)
          /\ (last'.ret = None => last'.caught # "")]_vars

\* a record without id was refused while the store held a row
C3_Witness ==
    /\ last.op = "save_animal" /\ last.caught = "KeyError" /\ last.ret = None
    /\ Len(animals_table) >= 1

(***************************************************************************)
(* Claims about the token manager (checked under SpecToken).               *)
(***************************************************************************)
\* the last operation was a data request made while a token obtained with
\* expires_in = 600 was held
RequestWith600 == last.op = "request" /\ last.had_token /\ last.expires_in = 600

\* C8 (as stated): with a token obtained with expires_in = 600, a data request made
\* before 301 elapsed seconds does not re-authenticate and one made after 301 does.
C8_RefreshAt301 ==
    RequestWith600 =>
        /\ (last.at - last.issued_at < 301 => ~last.reauth)
        /\ (last.at - last.issued_at >= 301 => last.reauth)

\* C8 (amended): with a token obtained with expires_in = 600, a data request made
\* before 300 elapsed seconds does not re-authenticate, and one made at or after 300
\* elapsed seconds does.
C8_RefreshAt300 ==
    RequestWith600 =>
        /\ (last.at - last.issued_at < 300 => ~last.reauth)
        /\ (last.at - last.issued_at >= 300 => last.reauth)

\* a request exactly 300 seconds after the token was obtained re-authenticated
C8_Witness == RequestWith600 /\ last.at - last.issued_at = 300 /\ last.reauth

\* C9: a data request re-authenticates first if and only if no token is held or the
\* time is at or past the last successful authentication + expires_in - 300 s.
C9_ReauthIffExpired ==
    last.op = "request" =>
        (last.reauth <=> (~last.had_token \/ last.at >= last.issued_at + last.expires_in - 300))

\* requests were made one second before the expiry of a held token, and at it
C9_Witness ==
    /\ last.op = "request" /\ last.had_token /\ ~last.reauth
    /\ last.at = last.issued_at + last.expires_in - 301

\* C10 (as stated): when the re-authentication attempted before a data request
\* fails, the request yields no records to the caller.
C10_AuthFailureYieldsNoData ==
    (last.op = "request" /\ last.reauth /\ ~last.auth_ok) => ~last.got /\ last.records = 0

(***************************************************************************)
(* Claims about the fetcher and the collector (checked under SpecCollect   *)
(* and, for termination, SpecRun).                                         *)
(***************************************************************************)
\* the pages requested by the current get_animals call (the latest, once it returned)
CallPages == SubSeq(requests, ga_first + 1, Len(requests))

\* the latest get_animals call has returned
Returned == pc = "save" \/ (pc = "stopped" /\ outcome # "auth-failed")

\* C4: when the listing reports total_pages = T >= 1 and answers every request of a
\* get_animals call with its page, the call requests pages 1, 2, ... in order, never
\* a page beyond T, and has requested exactly 1..T when it returns.
C4_RequestsPagesOneToTotal ==
    (pc \in {"request", "save", "stopped"} /\ src_reports /\ src_total_pages >= 1 /\ ~ga_failed) =>
        /\ CallPages = [i \in 1..Len(CallPages) |-> i]
        /\ Len(CallPages) <= src_total_pages
        /\ Returned => Len(CallPages) = src_total_pages

\* a call has returned after requesting pages 1, 2, 3 of a three-page listing
C4_Witness ==
    /\ pc = "save" /\ src_reports /\ src_total_pages = 3 /\ ~ga_failed
    /\ CallPages = <<1, 2, 3>>

\* C5: with max_animals = M >= 1 and a listing of one page holding more than M
\* records, none of whose saves fails, save_animal is never called more than M
\* times, and a run that got its page stops at the cap having called it M times and
\* returns M.
C5_SavesExactlyMaxAnimals ==
    (Truthy(max_animals) /\ src_total_pages = 1 /\ src_per_page > max_animals.n
         /\ save_fails = 0) =>
        /\ save_calls <= max_animals.n
        /\ (pc = "stopped" /\ outcome # "auth-failed" /\ ~run_failed) =>
               /\ outcome = "capped"
               /\ ret = VInt(max_animals.n)
               /\ save_calls = max_animals.n

\* a run capped at 2 stopped after 2 saves of a page of 3
C5_Witness ==
    /\ pc = "stopped" /\ outcome = "capped" /\ max_animals = VInt(2)
    /\ src_total_pages = 1 /\ src_per_page = 3 /\ save_calls = 2 /\ save_fails = 0
    /\ Len(batch) = 3 /\ Len(animals_table) = 2

\* C6 (as stated): a run without cap over a finite listing that reports its page
\* count eventually stops.
C6_RunEventuallyStops ==
    (pc = "authenticate" /\ max_animals = None /\ src_reports) ~> (pc = "stopped")

\* C7 (as stated): the pages of the listing requests of one run are strictly
\* increasing.
C7_PagesStrictlyIncrease ==
    \A i \in 1..(Len(requests) - 1) : requests[i] < requests[i + 1]

(***************************************************************************)
(* Claims about errors and the drivers (checked under SpecCollect and      *)
(* SpecDrive).                                                             *)
(***************************************************************************)
\* C11 (as stated): no single error during collect_sample_data or collect_by_region
\* ends the call with an unhandled exception.
C11_NoUnhandledException == driver.status # "raised"

\* the records of pages 1..k of the listing, in order
RECURSIVE FirstPages(_)
FirstPages(k) == IF k = 0 THEN <<>> ELSE FirstPages(k - 1) \o PageRecords(k)

\* C12: when a request of a get_animals call fails after k pages were fetched, the
\* call sends no further request and returns the records of those k pages.
C12_FailureKeepsFetchedPages ==
    ga_failed =>
        /\ pc # "request"
        /\ batch = FirstPages(Len(CallPages) - 1)

\* the request for page 3 failed and the call returned the records of pages 1 and 2
C12_Witness ==
    /\ ga_failed /\ pc = "save" /\ CallPages = <<1, 2, 3>>
    /\ src_per_page = 2 /\ batch = <<1, 2, 3, 4>>

\* C13 (as stated): after a listing request of a collect_animals run has failed, the
\* run sends no further listing request: no later get_animals call of the run sends
\* one.
C13_NoRequestAfterFailure == run_failed => (ga_failed \/ CallPages = <<>>)

\* C14: when the listing sends no total page count and its first page is not empty,
\* a get_animals call sends exactly one request and returns that page's batch,
\* whatever its size.
C14_NoPageCountIsOnePage ==
    (pc \in {"request", "save", "stopped"} /\ ~src_reports /\ src_total_pages >= 1
         /\ ~ga_failed) =>
        /\ Len(CallPages) <= 1
        /\ Returned => (CallPages = <<1>> /\ batch = PageRecords(1))

\* a call over a three-page listing without page count returned page 1's three records
C14_Witness ==
    /\ pc = "save" /\ ~src_reports /\ src_total_pages = 3 /\ src_per_page = 3
    /\ ~ga_failed /\ CallPages = <<1>> /\ batch = <<1, 2, 3>>

(***************************************************************************)
(* Further claims about the store (checked under SpecStore).               *)
(***************************************************************************)
\* C15: a save_animal call never changes the scraped_at of a row already stored; a
\* successful update sets the last_updated of the row it updates to the current
\* time and changes no other row; and scraped_at <= last_updated in every row.
C15_ScrapedOnceUpdatedEachTime ==
    [][last'.op = "save_animal" =>
          /\ \A i \in Rows : animals_table'[i].scraped_at = animals_table[i].scraped_at
          /\ (last'.found /\ Truthy(last'.ret)) =>
                 \E i \in Rows :
                     /\ animals_table'[i].last_updated = now
                     /\ \A j \in Rows \ {i} : animals_table'[j] = animals_table[j]
          /\ \A i \in 1..Len(animals_table') :
                 animals_table'[i].scraped_at <= animals_table'[i].last_updated]_vars

\* a row inserted at second 0 was updated at second 2
C15_Witness ==
    /\ last.op = "save_animal" /\ last.found /\ Truthy(last.ret) /\ now = 2
    /\ \E i \in Rows : animals_table[i].scraped_at = 0 /\ animals_table[i].last_updated = 2

(***************************************************************************)
(* Further claims about the collector (checked under SpecCollect).         *)
(***************************************************************************)
\* C16: in collect_animals a record whose save fails does not increase the collected
\* count and does not stop the run: the next record of the batch, if there is one,
\* is passed to save_animal next, and otherwise the loop goes on to its next turn.
C16_FailedSaveIsSkipped ==
    [][(pc = "save" /\ save_fails' = save_fails + 1) =>
          /\ collected_count' = collected_count
          /\ batch' = batch
          /\ IF idx < Len(batch) THEN pc' = "save" /\ idx' = idx + 1
                                 ELSE pc' = "fetch"]_vars

\* the save of record 1 failed and record 2, next in the batch, was saved and counted
C16_Witness ==
    /\ save_calls = 2 /\ save_fails = 1 /\ collected_count = 1
    /\ Len(animals_table) = 1 /\ animals_table[1].petfinder_id = str(VInt(2))

\* the moves of collect_animals between its states
Moves ==
    {<<"idle", "authenticate">>, <<"authenticate", "fetch">>, <<"authenticate", "stopped">>,
     <<"fetch", "request">>, <<"request", "request">>, <<"request", "save">>,
     <<"request", "stopped">>, <<"save", "save">>, <<"save", "fetch">>,
     <<"save", "stopped">>}

\* C17: collect_animals moves not started -> authenticating -> paging -> saving ->
\* ... -> stopped; while the initial authentication has not succeeded no listing
\* request is sent and no row is saved, and when it fails the run stops at once in
\* 'auth-failed', returning None, with no request sent and the store untouched.
C17_AuthenticatesBeforeAnythingElse ==
    [][/\ pc' # pc => <<pc, pc'>> \in Moves
       /\ (pc' \in {"idle", "authenticate"} \/ (pc' = "stopped" /\ outcome' = "auth-failed")) =>
              /\ requests' = <<>>
              /\ save_calls' = 0
              /\ animals_table' = <<>>
       /\ pc' \in {"fetch", "request", "save"} => (Truthy(token') /\ srv_expires_in' > 0)
       /\ pc' = "stopped" => outcome' \in {"exhausted", "capped", "auth-failed"}
       /\ (pc = "authenticate" /\ pc' = "stopped") =>
              /\ outcome' = "auth-failed"
              /\ ret' = None
              /\ ~Truthy(token')]_vars

\* a run whose authentication failed has stopped
C17_Witness ==
    /\ pc = "stopped" /\ outcome = "auth-failed" /\ ret = None
    /\ requests = <<>> /\ save_calls = 0 /\ animals_table = <<>> /\ token = None

(***************************************************************************)
(* Claims about the drivers (checked under SpecDrive).                     *)
(***************************************************************************)
\* C18 (as stated): for every sample size n >= 0 neither species run of
\* collect_sample_data saves more than floor(n/2) records, and the records saved by
\* the call never number more than n.
C18_SampleWithinCeiling ==
    driver.op = "sample" =>
        /\ collected_count <= driver.n \div 2
        /\ driver.saved + collected_count <= driver.n

\* the sum of a list of ints
RECURSIVE SumOf(_)
SumOf(vals) == IF vals = <<>> THEN 0 ELSE vals[1].n + SumOf(Tail(vals))

\* C19: collect_by_region starts its collect_animals runs in the order of `regions`,
\* one after the other has returned, each with animals_per_region as its cap; with a
\* cap >= 1 no run returns more than the cap; and what the call returns is the sum of
\* what the runs returned, one per region.
C19_RegionsInOrderAndSummed ==
    driver.op = "region" =>
        /\ driver.started = SubSeq(driver.sets, 1, driver.i)
        /\ Len(driver.rets) = (IF pc = "idle" THEN driver.i ELSE driver.i - 1)
        /\ pc # "idle" => max_animals = driver.cap
        /\ driver.cap.n >= 1 =>
               \A r \in 1..Len(driver.rets) :
                   driver.rets[r].k = "int" => driver.rets[r].n <= driver.cap.n
        /\ driver.status = "returned" =>
               /\ Len(driver.rets) = Len(driver.sets)
               /\ driver.ret = VInt(SumOf(driver.rets))
               /\ driver.cap.n >= 1 => driver.ret.n <= Len(driver.sets) * driver.cap.n

\* collect_by_region(['B', 'A'], 2) has returned 4 after a run for B and a run for A
C19_Witness ==
    /\ driver.op = "region" /\ driver.status = "returned"
    /\ driver.sets = <<"B", "A">> /\ driver.started = <<"B", "A">>
    /\ driver.cap = VInt(2) /\ driver.rets = <<VInt(2), VInt(2)>> /\ driver.ret = VInt(4)

(***************************************************************************)
(* Claims about the normalizer (checked under SpecSections).               *)
(***************************************************************************)
\* the columns derived from each nested section, with the key each is read from
SectionColumns(p) ==
    CASE p = <<"breeds">> ->
             {<<"breed_primary", "primary">>, <<"breed_secondary", "secondary">>,
              <<"breed_mixed", "mixed">>, <<"breed_unknown", "unknown">>}
      [] p = <<"colors">> ->
             {<<"color_primary", "primary">>, <<"color_secondary", "secondary">>,
              <<"color_tertiary", "tertiary">>}
      [] p = <<"attributes">> ->
             {<<"spayed_neutered", "spayed_neutered">>, <<"house_trained", "house_trained">>,
              <<"declawed", "declawed">>, <<"special_needs", "special_needs">>,
              <<"shots_current", "shots_current">>}
      [] p = <<"environment">> ->
             {<<"good_with_children", "children">>, <<"good_with_dogs", "dogs">>,
              <<"good_with_cats", "cats">>}
      [] p = <<"contact">> -> {}
      [] p = <<"contact", "address">> ->
             {<<"city", "city">>, <<"state", "state">>, <<"postcode", "postcode">>,
              <<"country", "country">>}

\* C20: a record that lacks nested sections is saved (no exception, a row returned),
\* and the row inserted for it has null in every column derived from a missing
\* section and the payload's value in every column derived from a present one.
C20_MissingSectionGivesNulls ==
    [][last'.op = "save_animal" =>
          /\ Truthy(last'.ret)
          /\ last'.caught = ""
          /\ ~last'.found =>
                 LET row == animals_table'[Len(animals_table')]
                 IN /\ Len(animals_table') = Len(animals_table) + 1
                    /\ \A p \in SectionPaths : \A c \in SectionColumns(p) :
                           row[c[1]] = IF Has(row.raw_data, p)
                                           THEN row.raw_data[Append(p, c[2])]
                                           ELSE None]_vars

\* a record with breeds but without attributes was inserted: its flags are null
C20_Witness ==
    /\ last.op = "save_animal" /\ ~last.found /\ Truthy(last.ret)
    /\ Len(animals_table) = 1
    /\ ~Has(animals_table[1].raw_data, <<"attributes">>)
    /\ Has(animals_table[1].raw_data, <<"breeds">>)
    /\ animals_table[1].declawed = None /\ animals_table[1].spayed_neutered = None
    /\ animals_table[1].house_trained = None /\ animals_table[1].special_needs = None
    /\ animals_table[1].shots_current = None
    /\ animals_table[1].breed_primary # None

(***************************************************************************)
(* Claims about the schema (checked under SpecSchema).                     *)
(***************************************************************************)
\* C21: whenever create_tables is called, on an empty database or on one that holds
\* tables and rows, the database holds the tables of the metadata afterwards and
\* every stored row is as it was; a call after the first changes nothing.
C21_CreateTablesIdempotent ==
    [][last'.op = "create_tables" =>
          /\ tables' = MetadataTables
          /\ animals_table' = animals_table
          /\ tables = MetadataTables => tables' = tables]_vars

\* create_tables was called again on a store holding two rows
C21_Witness ==
    /\ last.op = "create_tables" /\ last.had = MetadataTables
    /\ Len(animals_table) = 2

(***************************************************************************)
(* Claims about timestamps (checked under SpecTimestamps).                 *)
(***************************************************************************)
\* the instant a source timestamp denotes: a trailing Z is the offset +00:00
Instant(v) == VDateTime(v.l[1], IF v.l[2] = "Z" THEN "+00:00" ELSE v.l[2])

\* C22: a record whose published_at and status_changed_at are each absent, null or an
\* ISO-8601 string is saved; the row inserted for it holds null for an absent or null
\* field and, for a string, the instant it denotes, a trailing Z read as +00:00.
C22_TimestampsNormalized ==
    [][last'.op = "save_animal" =>
          /\ Truthy(last'.ret)
          /\ last'.caught = ""
          /\ ~last'.found =>
                 LET row == animals_table'[Len(animals_table')]
                 IN \A key \in {"published_at", "status_changed_at"} :
                        LET v == Get(row.raw_data, <<key>>)
                        IN row[key] = IF Truthy(v) THEN Instant(v) ELSE None]_vars

\* "2023-05-01T12:00:00Z" was stored as 2023-05-01T12:00:00+00:00, and the missing
\* status_changed_at of the same record as null
C22_Witness ==
    /\ last.op = "save_animal" /\ ~last.found /\ Truthy(last.ret)
    /\ Len(animals_table) = 1
    /\ Get(animals_table[1].raw_data, <<"published_at">>)
           = VStr(<<"2023-05-01T12:00:00", "Z">>)
    /\ animals_table[1].published_at = VDateTime("2023-05-01T12:00:00", "+00:00")
    /\ ~Has(animals_table[1].raw_data, <<"status_changed_at">>)
    /\ animals_table[1].status_changed_at = None

(***************************************************************************)
(* Claims about paging (checked under SpecCollect and SpecToken).          *)
(***************************************************************************)
\* the page of the listing that holds record r
PageOf(r) == ((r - 1) \div src_per_page) + 1

\* C23 (as stated): the listing request for page k+1 is sent only after every record
\* of page k has been passed to save_animal, so a run stopped by the cap has
\* requested no page beyond the one that holds the record that reached the cap.
C23_OnePageAtATime ==
    /\ \A i \in 1..Len(requests) :
           requests[i] >= 2 => save_calls >= (requests[i] - 1) * src_per_page
    /\ (pc = "stopped" /\ outcome = "capped") =>
           \A i \in 1..Len(requests) : requests[i] <= PageOf(batch[idx])

C25_CountIsSavesThatReturned ==
    (pc = "stopped" /\ outcome # "auth-failed") =>
        /\ ret = VInt(save_calls - save_fails)
        /\ Len(animals_table) <= ret.n
        /\ Truthy(max_animals) => ret.n <= max_animals.n

\* a run with max_animals = 2 over a listing of one record returned 2, the insert
\* and the update of the same id, and added one row
C25_Witness ==
    /\ pc = "stopped" /\ outcome = "capped"
    /\ max_animals = VInt(2)
    /\ ret = VInt(2)
    /\ save_calls = 2 /\ save_fails = 0
    /\ Len(animals_table) = 1

(***************************************************************************)
(* Claims about updates (checked under SpecUpdates).                       *)
(***************************************************************************)
\* C26: an update sets status and description to the payload's values, null when the
\* payload lacks them, and photos to the payload's list, the empty list when it lacks
\* one; status_changed_at is replaced only when the payload holds a non-null one and
\* keeps its stored value otherwise.
C26_UpdateKeepsStatusChangedAt ==
    [][(last'.op = "save_animal" /\ last'.found) =>
           /\ Truthy(last'.ret)
           /\ Len(animals_table') = Len(animals_table)
           /\ \A i \in 1..Len(animals_table) :
                  LET row == animals_table'[i]
                      changed == Get(row.raw_data, <<"status_changed_at">>)
                  IN /\ row.status = Get(row.raw_data, <<"status">>)
                     /\ row.description = Get(row.raw_data, <<"description">>)
                     /\ row.photos = IF Has(row.raw_data, <<"photos">>)
                                         THEN row.raw_data[<<"photos">>] ELSE VList(<<>>)
                     /\ row.status_changed_at =
                            IF Truthy(changed) THEN Instant(changed)
                                               ELSE animals_table[i].status_changed_at]_vars

\* the stored animal was updated from a record of nothing but its id: status and
\* description are null, photos is empty, status_changed_at is still the instant stored
C26_Witness ==
    /\ last.op = "save_animal" /\ last.found /\ Truthy(last.ret)
    /\ Len(animals_table) = 1
    /\ animals_table[1].raw_data = Sparse(VInt(1))
    /\ animals_table[1].status = None
    /\ animals_table[1].description = None
    /\ animals_table[1].photos = VList(<<>>)
    /\ animals_table[1].status_changed_at = VDateTime("2023-06-02T08:30:00", "+00:00")

(***************************************************************************)
(* Claims about a failed authentication (checked under SpecToken).         *)
(***************************************************************************)
\* C27: an authenticate that fails leaves the token and its expiry as they were, and
\* the listing request that asked for it is sent all the same, with the token held
\* before in its Authorization header.
C27_FailedAuthKeepsToken ==
    [][/\ (last'.op = "authenticate" /\ ~last'.ret) =>
              token' = token /\ token_expires' = token_expires
       /\ (last'.op = "request" /\ last'.reauth /\ ~last'.auth_ok) =>
              /\ token' = token /\ token_expires' = token_expires
              /\ last'.bearer = token]_vars

\* a request made past the expiry held, whose re-authentication failed, was sent
\* with the old token, which the server still accepted
C27_Witness ==
    /\ last.op = "request" /\ last.had_token /\ last.reauth /\ ~last.auth_ok
    /\ last.bearer = token /\ Truthy(token)
    /\ now >= token_expires
    /\ last.got

(***************************************************************************)
(* Claims about null sections (checked under SpecNulls).                   *)
(***************************************************************************)
\* one of the sections of the record is present and null
HeldNullSection(data) == \E name \in SectionNames : Has(data, <<name>>) /\ data[<<name>>] = None

\* C28: a record of an id not yet stored in which breeds, colors, attributes,
\* environment or contact is present and null is not stored: save_animal returns None
\* for it and the table is as it was.
C28_NullSectionNotStored ==
    [][\A data \in NullSectionInputs :
           (HeldNullSection(data) /\ QueryFirst(animals_table, str(data[<<"id">>])) = 0
               /\ SaveAnimalCall(data, "none")) =>
                   /\ last'.ret = None
                   /\ last'.caught = "AttributeError"
                   /\ animals_table' = animals_table]_vars

\* with animal 1 stored, a record of animal 2 whose section was null has been refused
\* and the table still holds animal 1 alone
C28_Witness ==
    /\ last.op = "save_animal" /\ ~last.found /\ last.ret = None
    /\ last.caught = "AttributeError"
    /\ Len(animals_table) = 1
    /\ animals_table[1].petfinder_id = VStr(<<"1">>)

====
